---- MODULE Spec2Model ----
(***************************************************************************)
(* Model of the appointment booking core: CalendarService (slot state and *)
(* per-reservation expiry timers) and BookingService (booking table,      *)
(* reservation ledger, periodic cleanup, snapshot to localStorage).       *)
(*                                                                         *)
(* JavaScript runs every handler to completion: createBooking and         *)
(* cancelBooking are async functions without an await, so each call, each *)
(* setTimeout callback and each setInterval callback is one atomic step.  *)
(*                                                                         *)
(* Time is counted in minutes.                                             *)
(* Strings that the code inspects character by character are sequences of *)
(* one-character strings.                                                  *)
(***************************************************************************)
EXTENDS Integers, Sequences, FiniteSets, TLC

\* ---------------------------------------------------------------- bounds
MaxTime == 7
MaxBookings == 2
\* Dates are day numbers, day 0 being Thursday 1970-01-01; the date ranges
\* tried run from day 1 to MaxDay
MaxDay == 6

\* ------------------------------------------------------ program constants
\* 5 * 60 * 1000 ms, in minutes
RESERVATION_TIMEOUT == 5
\* substring(0, 255)
MaxStringLength == 255

Slots == {"s1", "s2"}
Owners == {"A", "B"}
\* undefined / null
None == "none"

CONFIRMED == "confirmed"
CANCELLED == "cancelled"
PENDING == "pending"

\* ------------------------------------------------------------- strings
Whitespace == {" ", "\t", "\n"}
DangerousChars == {"<", ">", "\"", "'", "&"}
Digits == {"0", "1", "2", "3", "4", "5", "6", "7", "8", "9"}
UpperCase == <<"A", "B", "C", "D", "E", "F", "G", "H", "I", "J", "K", "L", "M",
               "N", "O", "P", "Q", "R", "S", "T", "U", "V", "W", "X", "Y", "Z">>
LowerCase == <<"a", "b", "c", "d", "e", "f", "g", "h", "i", "j", "k", "l", "m",
               "n", "o", "p", "q", "r", "s", "t", "u", "v", "w", "x", "y", "z">>

RECURSIVE trimStart(_)
trimStart(s) ==
    IF s # <<>> /\ Head(s) \in Whitespace THEN trimStart(Tail(s)) ELSE s

RECURSIVE trimEnd(_)
trimEnd(s) ==
    IF s # <<>> /\ s[Len(s)] \in Whitespace
    THEN trimEnd(SubSeq(s, 1, Len(s) - 1))
    ELSE s

\* String.prototype.trim
trim(s) == trimEnd(trimStart(s))

\* String.prototype.replace(/[set]/g, '')
removeChars(s, set) == SelectSeq(s, LAMBDA c : c \notin set)

\* String.prototype.substring(0, n)
substring0(s, n) == SubSeq(s, 1, IF Len(s) < n THEN Len(s) ELSE n)

toLowerChar(c) ==
    IF \E i \in 1..26 : UpperCase[i] = c
    THEN LowerCase[CHOOSE i \in 1..26 : UpperCase[i] = c]
    ELSE c

\* String.prototype.toLowerCase
toLowerCase(s) == [i \in 1..Len(s) |-> toLowerChar(s[i])]

sanitizeString(input) ==
    IF input = <<>>
    THEN <<>>
    ELSE substring0(removeChars(trim(input), DangerousChars), MaxStringLength)

\* /^[^\s@]+@[^\s@]+\.[^\s@]+$/.test(s)
emailRegexTest(s) ==
    /\ \A i \in 1..Len(s) : s[i] \notin Whitespace
    /\ Cardinality({i \in 1..Len(s) : s[i] = "@"}) = 1
    /\ LET at == CHOOSE i \in 1..Len(s) : s[i] = "@"
       IN  /\ at > 1
           /\ \E d \in (at + 2)..(Len(s) - 1) : s[d] = "."

\* /^[\+]?[1-9][\d]{0,15}$/.test(s)
phoneRegexTest(s) ==
    LET body == IF s # <<>> /\ Head(s) = "+" THEN Tail(s) ELSE s
    IN  /\ Len(body) >= 1
        /\ Len(body) <= 16
        /\ body[1] \in Digits \ {"0"}
        /\ \A i \in 2..Len(body) : body[i] \in Digits

validateContactInfo(contactInfo) ==
    LET sanitizedName == sanitizeString(contactInfo.name)
        nameErrors ==
            IF sanitizedName = <<>> \/ Len(sanitizedName) < 2
            THEN <<[field |-> "name", type |-> "required_field"]>>
            ELSE <<>>
        sanitizedEmail == sanitizeString(contactInfo.email)
        emailErrors ==
            IF sanitizedEmail = <<>> \/ ~emailRegexTest(sanitizedEmail)
            THEN <<[field |-> "email", type |-> "invalid_email"]>>
            ELSE <<>>
        sanitizedPhone == sanitizeString(contactInfo.phone)
        cleanPhone == removeChars(sanitizedPhone, Whitespace \cup {"-", "(", ")"})
        phoneErrors ==
            IF sanitizedPhone = <<>> \/ ~phoneRegexTest(cleanPhone)
            THEN <<[field |-> "phone", type |-> "invalid_phone"]>>
            ELSE <<>>
        errors == nameErrors \o emailErrors \o phoneErrors
    IN  [isValid |-> Len(errors) = 0, errors |-> errors]

sanitizeContactInfo(contactInfo) ==
    [name  |-> sanitizeString(contactInfo.name),
     email |-> toLowerCase(sanitizeString(contactInfo.email)),
     phone |-> sanitizeString(contactInfo.phone)]

\* ------------------------------------------------- utils/validation.ts
Letters == {UpperCase[i] : i \in 1..26} \cup {LowerCase[i] : i \in 1..26}

\* An anchored regular expression is a sequence of items, each a character
\* class with the least and the greatest number of repetitions; s matches
\* from position j on against the items from k on
RECURSIVE matchFrom(_, _, _, _)
matchFrom(pattern, k, s, j) ==
    IF k > Len(pattern)
    THEN j = Len(s) + 1
    ELSE LET most == IF pattern[k].max < Len(s) - j + 1
                     THEN pattern[k].max
                     ELSE Len(s) - j + 1
         IN  \E n \in pattern[k].min..most :
                /\ \A i \in j..(j + n - 1) : s[i] \in pattern[k].chars
                /\ matchFrom(pattern, k + 1, s, j + n)

\* RegExp.prototype.test for a pattern between ^ and $
regexTest(pattern, s) == matchFrom(pattern, 1, s, 1)

\* x{min,max}; a max beyond every string tried stands for 'or more'
Rep(chars, min, max) == [chars |-> chars, min |-> min, max |-> max]
OrMore == 1000

\* /^[a-zA-Z0-9._%+-]+@[a-zA-Z0-9.-]+\.[a-zA-Z]{2,}$/
EMAIL_REGEX ==
    <<Rep(Letters \cup Digits \cup {".", "_", "%", "+", "-"}, 1, OrMore),
      Rep({"@"}, 1, 1),
      Rep(Letters \cup Digits \cup {".", "-"}, 1, OrMore),
      Rep({"."}, 1, 1),
      Rep(Letters, 2, OrMore)>>

\* /^[\+]?[1-9]?[\-\.\s]?\(?[0-9]{3}\)?[\-\.\s]?[0-9]{3}[\-\.\s]?[0-9]{4}$/
PHONE_REGEX ==
    <<Rep({"+"}, 0, 1),
      Rep(Digits \ {"0"}, 0, 1),
      Rep({"-", "."} \cup Whitespace, 0, 1),
      Rep({"("}, 0, 1),
      Rep(Digits, 3, 3),
      Rep({")"}, 0, 1),
      Rep({"-", "."} \cup Whitespace, 0, 1),
      Rep(Digits, 3, 3),
      Rep({"-", "."} \cup Whitespace, 0, 1),
      Rep(Digits, 4, 4)>>

\* /^[a-zA-Z\s\-']{2,50}$/
NAME_REGEX == <<Rep(Letters \cup Whitespace \cup {"-", "'"}, 2, 50)>>

\* null: the field has no error
NoError == [field |-> None]

ValidationError(field, type, message) ==
    [field |-> field, type |-> type, message |-> message]

validateName(name) ==
    LET trimmedName == trim(name)
    IN  IF trimmedName = <<>>
        THEN ValidationError("name", "required_field", "Name is required")
        ELSE IF Len(trimmedName) < 2
        THEN ValidationError("name", "invalid_name",
                             "Name must be at least 2 characters long")
        ELSE IF Len(trimmedName) > 50
        THEN ValidationError("name", "invalid_name",
                             "Name must be less than 50 characters")
        ELSE IF ~regexTest(NAME_REGEX, trimmedName)
        THEN ValidationError("name", "invalid_name",
               "Name can only contain letters, spaces, hyphens, and apostrophes")
        ELSE NoError

validateEmail(email) ==
    LET trimmedEmail == trim(email)
    IN  IF trimmedEmail = <<>>
        THEN ValidationError("email", "required_field", "Email is required")
        ELSE IF ~regexTest(EMAIL_REGEX, trimmedEmail)
        THEN ValidationError("email", "invalid_email",
                             "Please enter a valid email address")
        ELSE NoError

validatePhone(phone) ==
    LET trimmedPhone == trim(phone)
        \* replace(/\D/g, '')
        digitsOnly == SelectSeq(trimmedPhone, LAMBDA c : c \in Digits)
    IN  IF trimmedPhone = <<>>
        THEN ValidationError("phone", "required_field",
                             "Phone number is required")
        ELSE IF ~regexTest(PHONE_REGEX, trimmedPhone)
        THEN ValidationError("phone", "invalid_phone",
               "Please enter a valid phone number (e.g., (123) 456-7890)")
        ELSE IF Len(digitsOnly) < 10
        THEN ValidationError("phone", "invalid_phone",
                             "Phone number must be at least 10 digits")
        ELSE IF Len(digitsOnly) > 15
        THEN ValidationError("phone", "invalid_phone",
                             "Phone number must be less than 15 digits")
        ELSE NoError

\* validateContactForm giving up at the first field in error
validateContactForm_ShortCircuit(name, email, phone) ==
    LET nameError == validateName(name)
        emailError == IF nameError = NoError
                      THEN validateEmail(email) ELSE NoError
        phoneError == IF nameError = NoError /\ emailError = NoError
                      THEN validatePhone(phone) ELSE NoError
    IN  [isValid |-> /\ nameError = NoError /\ emailError = NoError
                     /\ phoneError = NoError,
         errors |-> [name |-> nameError, email |-> emailError,
                     phone |-> phoneError]]

validateContactForm(name, email, phone) ==
    LET errors == [name |-> validateName(name),
                   email |-> validateEmail(email),
                   phone |-> validatePhone(phone)]
    IN  [isValid |-> /\ errors.name = NoError /\ errors.email = NoError
                     /\ errors.phone = NoError,
         errors |-> errors]

\* Contact inputs offered to createBooking
JohnDoe ==
    [name  |-> <<" ", "J", "o", "<", "e">>,
     email |-> <<"J", "@", "x", ".", "i", "o">>,
     phone |-> <<"(", "1", "2", ")", " ", "3", "-", "4">>]
BadContact ==
    [name  |-> <<"J">>,
     email |-> <<"b", "a", "d">>,
     phone |-> <<"1">>]
Contacts == {JohnDoe, BadContact}

\* ------------------------------------------------------------- state
VARIABLES
    now,           \* Date.now(), in time units
    bookedSlots,   \* CalendarService.bookedSlots: slotId -> userId
    reservedSlots, \* CalendarService.reservedSlots
    timers,        \* pending setTimeout callbacks of CalendarService.reserveSlot
    bookings,      \* BookingService.bookings, in insertion order
    reservations,  \* BookingService.reservations: slotId -> {userId, expiresAt}
    storage,       \* localStorage['booking_service_data']
    issued,        \* the ids generated for the bookings made, in order
    storageFails,  \* localStorage.setItem throws (quota exceeded, disabled)
    call,          \* SpecCalls: the function called and its arguments
    result,        \* SpecCalls: what the call returned
    state          \* BookingProvider: the state of useReducer

vars == <<now, bookedSlots, reservedSlots, timers, bookings, reservations,
          storage, issued, storageFails, call, result, state>>

\* No call is under way
NoCall == [fn |-> None]
NoResult == [done |-> FALSE]

\* No BookingProvider is mounted
NoState == [mounted |-> FALSE]

NoReservation == [userId |-> None, expiresAt |-> 0]

\* The two services as one value: the calendar's fields under cal
Svc ==
    [cal |-> [bookedSlots |-> bookedSlots, reservedSlots |-> reservedSlots,
              timers |-> timers],
     bookings |-> bookings,
     reservations |-> reservations,
     storage |-> storage,
     storageFails |-> storageFails,
     thrown |-> FALSE]

\* --------------------------------------------------------- CalendarService
\* isSlotAvailable that answers true for every slot
isSlotAvailable_Always(cal, slotId) == TRUE

isSlotAvailable(cal, slotId) ==
    cal.bookedSlots[slotId] = None /\ slotId \notin cal.reservedSlots

\* reserveSlot that looks at reservedSlots only
Cal_reserveSlot_IgnoresBooked(cal, slotId, reservationTimeoutMs, t) ==
    IF slotId \in cal.reservedSlots
    THEN [ok |-> FALSE, cal |-> cal]
    ELSE [ok |-> TRUE,
          cal |-> [cal EXCEPT
                     !.reservedSlots = @ \cup {slotId},
                     !.timers = @ \cup {[slotId |-> slotId,
                                         at |-> t + reservationTimeoutMs]}]]

\* reserveSlot(slotId, reservationTimeoutMs) called at time t
Cal_reserveSlot(cal, slotId, reservationTimeoutMs, t) ==
    IF cal.bookedSlots[slotId] # None \/ slotId \in cal.reservedSlots
    THEN [ok |-> FALSE, cal |-> cal]
    ELSE [ok |-> TRUE,
          cal |-> [cal EXCEPT
                     !.reservedSlots = @ \cup {slotId},
                     !.timers = @ \cup {[slotId |-> slotId,
                                         at |-> t + reservationTimeoutMs]}]]

\* The setTimeout callback with the slot left in reservedSlots
Cal_autoRelease_KeepsSlot(cal, timer) ==
    [cal EXCEPT !.timers = @ \ {timer}]

\* The setTimeout callback of reserveSlot
Cal_autoRelease(cal, timer) ==
    [cal EXCEPT !.reservedSlots = @ \ {timer.slotId},
                !.timers = @ \ {timer}]

\* bookSlot with the booking not recorded in bookedSlots
bookSlot_Unrecorded(cal, slotId, userId) ==
    IF cal.bookedSlots[slotId] # None
    THEN [ok |-> FALSE, cal |-> cal]
    ELSE [ok |-> TRUE,
          cal |-> [cal EXCEPT !.reservedSlots = @ \ {slotId}]]

\* bookSlot that leaves the slot in reservedSlots
bookSlot_KeepsReservation(cal, slotId, userId) ==
    IF cal.bookedSlots[slotId] # None
    THEN [ok |-> FALSE, cal |-> cal]
    ELSE [ok |-> TRUE, cal |-> [cal EXCEPT !.bookedSlots[slotId] = userId]]

\* bookSlot reporting a conflict after it has recorded the booking
bookSlot_RecordsThenFails(cal, slotId, userId) ==
    [ok |-> FALSE,
     cal |-> [cal EXCEPT !.reservedSlots = @ \ {slotId},
                         !.bookedSlots[slotId] = userId]]

bookSlot(cal, slotId, userId) ==
    IF cal.bookedSlots[slotId] # None
    THEN [ok |-> FALSE, cal |-> cal]
    ELSE [ok |-> TRUE,
          cal |-> [cal EXCEPT !.reservedSlots = @ \ {slotId},
                              !.bookedSlots[slotId] = userId]]

Cal_cancelBooking(cal, slotId, userId) ==
    IF cal.bookedSlots[slotId] # userId
    THEN [ok |-> FALSE, cal |-> cal]
    ELSE [ok |-> TRUE, cal |-> [cal EXCEPT !.bookedSlots[slotId] = None]]

\* reservedSlots.clear(): the pending setTimeout callbacks stay
clearReservations(cal) == [cal EXCEPT !.reservedSlots = {}]

\* bookedSlots.clear()
clearBookings(cal) == [cal EXCEPT !.bookedSlots = [s \in Slots |-> None]]

\* ------------------------------------------- CalendarService: time slots
DigitChars == <<"0", "1", "2", "3", "4", "5", "6", "7", "8", "9">>

\* Number(s) for a string of decimal digits; Number('') is 0
RECURSIVE Number(_)
Number(s) ==
    IF s = <<>>
    THEN 0
    ELSE 10 * Number(SubSeq(s, 1, Len(s) - 1))
           + (CHOOSE n \in 0..9 : DigitChars[n + 1] = s[Len(s)])

\* Number.prototype.toString for a natural number
RECURSIVE numberToString(_)
numberToString(n) ==
    IF n < 10
    THEN <<DigitChars[n + 1]>>
    ELSE numberToString(n \div 10) \o <<DigitChars[(n % 10) + 1]>>

\* String.prototype.padStart(targetLength, padString), padString one character
RECURSIVE padStart(_, _, _)
padStart(s, targetLength, padString) ==
    IF Len(s) >= targetLength
    THEN s
    ELSE padStart(<<padString>> \o s, targetLength, padString)

\* time.split(':'): the parts before and after the first colon
split(time) ==
    LET colon == CHOOSE i \in 1..Len(time) :
                    time[i] = ":" /\ \A j \in 1..(i - 1) : time[j] # ":"
    IN  <<SubSeq(time, 1, colon - 1), SubSeq(time, colon + 1, Len(time))>>

\* const [hour, minute] = time.split(':').map(Number); hour * 60 + minute
timeToMinutes(time) ==
    Number(split(time)[1]) * 60 + Number(split(time)[2])

minutesToTimeString(minutes) ==
    LET hours == minutes \div 60
        mins == minutes % 60
    IN  padStart(numberToString(hours), 2, "0") \o <<":">>
          \o padStart(numberToString(mins), 2, "0")

\* The for loop of generateDailySlots from the value minutes on. The fields
\* isAvailable and bookedBy of a slot are left out.
RECURSIVE dailySlotsFrom(_, _, _, _)
dailySlotsFrom(date, minutes, endMinutes, intervalMinutes) ==
    IF ~(minutes < endMinutes)
    THEN <<>>
    ELSE LET slotStartTime == minutesToTimeString(minutes)
             slotEndTime == minutesToTimeString(minutes + intervalMinutes)
         IN  <<[id |-> <<date, "_", slotStartTime>>,
                date |-> date,
                startTime |-> slotStartTime,
                endTime |-> slotEndTime]>>
               \o dailySlotsFrom(date, minutes + intervalMinutes, endMinutes,
                                 intervalMinutes)

generateDailySlots(date, startTime, endTime, intervalMinutes) ==
    dailySlotsFrom(date, timeToMinutes(startTime), timeToMinutes(endTime),
                   intervalMinutes)

\* A Date is its time value, counted in hours since 1970-01-01T00:00Z.
\* new Date('YYYY-MM-DD') is midnight UTC of that day
newDate(date) == date * 24

\* date.toISOString().split('T')[0]: the day in UTC
toISODate(time) == time \div 24

\* date.getDay(): the day of the week in local time, 0 for Sunday; utcOffset
\* is local time minus UTC in hours
getDay(time, utcOffset) == (((time + utcOffset) \div 24) + 4) % 7

\* The for loop of generateTimeSlots from the Date value time on.
\* date.setDate(date.getDate() + 1) moves the local date on by one day, 24
\* hours when the offset of the zone does not change in between.
RECURSIVE timeSlotsFrom(_, _, _, _, _, _)
timeSlotsFrom(time, end, startTime, endTime, intervalMinutes, utcOffset) ==
    IF ~(time <= end)
    THEN <<>>
    ELSE LET dateString == toISODate(time)
             dayOfWeek == getDay(time, utcOffset)
             dailySlots ==
                 IF dayOfWeek = 0 \/ dayOfWeek = 6
                 THEN <<>>
                 ELSE generateDailySlots(dateString, startTime, endTime,
                                         intervalMinutes)
         IN  dailySlots \o timeSlotsFrom(time + 24, end, startTime, endTime,
                                         intervalMinutes, utcOffset)

\* generateTimeSlots run on a machine whose zone is utcOffset hours ahead of
\* UTC
generateTimeSlots(startDate, endDate, startTime, endTime, intervalMinutes, utcOffset) ==
    timeSlotsFrom(newDate(startDate), newDate(endDate), startTime, endTime,
                  intervalMinutes, utcOffset)

\* ---------------------------------------------------------- BookingService
\* Array.from(this.bookings.entries()): the [key, value] pairs in table order
bookingEntries(table) ==
    [i \in DOMAIN table |-> <<i, table[i]>>]

\* Array.from(this.reservations.entries()): the [key, value] pairs of the
\* slots that have an entry. The ledger does not record insertion order, so
\* the pairs form a set.
reservationEntries(ledger) ==
    {<<s, ledger[s]>> : s \in {x \in DOMAIN ledger : ledger[x] # NoReservation}}

\* localStorage.setItem(STORAGE_KEY, JSON.stringify(data)). The values are
\* strings, finite numbers and plain objects, which JSON text carries
\* unchanged; the timestamp field is written but never read back.
setItem(svc) ==
    [svc EXCEPT !.storage =
        [saved |-> TRUE,
         bookings |-> bookingEntries(svc.bookings),
         reservations |-> reservationEntries(svc.reservations)]]

\* saveToStorage without its try/catch: the exception of setItem reaches the
\* caller
saveToStorage_Uncaught(svc) ==
    IF svc.storageFails THEN [svc EXCEPT !.thrown = TRUE] ELSE setItem(svc)

\* try { setItem } catch { console.error }
saveToStorage(svc) ==
    IF svc.storageFails THEN svc ELSE setItem(svc)

\* The key of a new booking in the table. Spec takes every generated id as
\* new and lets the booking's position in the table stand for it; SpecIds
\* checks the generators themselves.
generateBookingId(svc) == Len(svc.bookings) + 1

toUpperChar(c) ==
    IF \E i \in 1..26 : LowerCase[i] = c
    THEN UpperCase[CHOOSE i \in 1..26 : LowerCase[i] = c]
    ELSE c

\* String.prototype.toUpperCase
toUpperCase(s) == [i \in 1..Len(s) |-> toUpperChar(s[i])]

\* String.prototype.substr(start, length)
substr(s, start, length) ==
    SubSeq(s, start + 1,
           IF Len(s) < start + length THEN Len(s) ELSE start + length)

\* Date.now().toString().slice(-6): the last six decimal digits
lastSixDigits(t) == t % 1000000

\* `booking_${Date.now()}_${Math.random().toString(36).substr(2, 9)}`, where
\* random is Math.random().toString(36), a string "0." and base-36 digits
generateBookingIdString(t, random) ==
    <<"booking", t, substr(random, 2, 9)>>

\* `CONF${Date.now().toString().slice(-6)}${Math.random().toString(36)
\*    .substr(2, 4).toUpperCase()}`
generateConfirmationId(t, random) ==
    <<"CONF", lastSixDigits(t), toUpperCase(substr(random, 2, 4))>>

\* undefined: a result without data
NoData == [name |-> None]

Failure(svc, error) ==
    [success |-> FALSE, error |-> error, data |-> NoData, svc |-> svc]

\* The ownership check left out
reservedByAnotherUser_Never(reservation, userId) == FALSE

\* reservation && reservation.userId !== userId
reservedByAnotherUser(reservation, userId) ==
    reservation # NoReservation /\ reservation.userId # userId

\* The booking stored, the slot's reservation left in the ledger
storeBooking_KeepsReservation(svc, booking) ==
    saveToStorage([svc EXCEPT !.bookings = Append(@, booking)])

\* bookings.set(booking.id, booking); reservations.delete(timeSlot.id);
\* saveToStorage()
storeBooking(svc, booking) ==
    saveToStorage(
        [svc EXCEPT !.bookings = Append(@, booking),
                    !.reservations[booking.timeSlot.id] = NoReservation])

createBooking(svc, contactInfo, timeSlot, userId) ==
    LET validationResult == validateContactInfo(contactInfo)
        reservation == svc.reservations[timeSlot]
        booked == bookSlot(svc.cal, timeSlot, userId)
        booking == [id |-> generateBookingId(svc),
                    contactInfo |-> sanitizeContactInfo(contactInfo),
                    timeSlot |-> [id |-> timeSlot, bookedBy |-> userId],
                    status |-> CONFIRMED]
    IN  IF ~validationResult.isValid
        THEN Failure(svc, "Validation failed")
        ELSE IF ~isSlotAvailable(svc.cal, timeSlot)
        THEN Failure(svc, "Selected time slot is no longer available")
        ELSE IF reservedByAnotherUser(reservation, userId)
        THEN Failure(svc, "Time slot is reserved by another user")
        ELSE IF ~booked.ok
        THEN Failure([svc EXCEPT !.cal = booked.cal],
                     "Failed to book time slot - conflict detected")
        ELSE LET stored ==
                     storeBooking([svc EXCEPT !.cal = booked.cal], booking)
             IN  IF stored.thrown
                 THEN Failure([stored EXCEPT !.thrown = FALSE],
                              "An unexpected error occurred while creating the booking")
                 ELSE [success |-> TRUE, error |-> None,
                       data |-> [name |-> booking.contactInfo.name,
                                 phone |-> booking.contactInfo.phone,
                                 email |-> booking.contactInfo.email,
                                 selectedSlot |-> booking.timeSlot],
                       svc |-> stored]

\* reserveSlot(slotId, userId) called at time t
reserveSlot(svc, slotId, userId, t) ==
    LET existingReservation == svc.reservations[slotId]
        calendarReserved ==
            Cal_reserveSlot(svc.cal, slotId, RESERVATION_TIMEOUT, t)
    IN  IF ~isSlotAvailable(svc.cal, slotId)
        THEN [ok |-> FALSE, svc |-> svc]
        ELSE IF /\ existingReservation # NoReservation
                /\ existingReservation.userId # userId
                /\ t < existingReservation.expiresAt
        THEN [ok |-> FALSE, svc |-> svc]
        ELSE IF ~calendarReserved.ok
        THEN [ok |-> FALSE, svc |-> [svc EXCEPT !.cal = calendarReserved.cal]]
        ELSE [ok |-> TRUE,
              svc |-> saveToStorage(
                        [svc EXCEPT
                           !.cal = calendarReserved.cal,
                           !.reservations[slotId] =
                               [userId |-> userId,
                                expiresAt |-> t + RESERVATION_TIMEOUT]])]

releaseReservation(svc, slotId, userId) ==
    LET reservation == svc.reservations[slotId]
    IN  IF reservation = NoReservation \/ reservation.userId # userId
        THEN [ok |-> FALSE, svc |-> svc]
        ELSE [ok |-> TRUE,
              svc |-> saveToStorage(
                        [svc EXCEPT !.reservations[slotId] = NoReservation])]

\* The ownership check left out
mayCancel_Anyone(booking, userId) == TRUE

\* booking.timeSlot.bookedBy === userId
mayCancel(booking, userId) == booking.timeSlot.bookedBy = userId

\* The record deleted from the table instead of marked
markCancelled_Deletes(svc, bookingId) ==
    [svc EXCEPT !.bookings =
        SubSeq(@, 1, bookingId - 1) \o SubSeq(@, bookingId + 1, Len(@))]

\* booking.status = BookingStatus.CANCELLED
markCancelled(svc, bookingId) ==
    [svc EXCEPT !.bookings[bookingId].status = CANCELLED]

cancelBooking(svc, bookingId, userId) ==
    IF bookingId \notin DOMAIN svc.bookings
    THEN [ok |-> FALSE, svc |-> svc]
    ELSE LET booking == svc.bookings[bookingId]
         IN  IF ~mayCancel(booking, userId)
             THEN [ok |-> FALSE, svc |-> svc]
             ELSE [ok |-> TRUE,
                   svc |-> saveToStorage(
                             [markCancelled(svc, bookingId) EXCEPT
                                !.cal = Cal_cancelBooking(
                                            @, booking.timeSlot.id, userId).cal])]

\* null: no booking has this id
NoBooking == [id |-> 0]

getBooking(svc, bookingId) ==
    IF bookingId \in DOMAIN svc.bookings
    THEN svc.bookings[bookingId]
    ELSE NoBooking

\* CalendarService.getBookingStats(); totalAvailable, a count over the slots
\* generated for a date range, is left out
Cal_getBookingStats(cal) ==
    [totalBooked |-> Cardinality({s \in Slots : cal.bookedSlots[s] # None}),
     totalReserved |-> Cardinality(cal.reservedSlots)]

\* bookings.filter(b => b.status === status).length
countByStatus(svc, status) ==
    Cardinality({i \in DOMAIN svc.bookings : svc.bookings[i].status = status})

\* this.reservations.size
reservationsSize(svc) ==
    Cardinality({s \in Slots : svc.reservations[s] # NoReservation})

getBookingStats(svc) ==
    LET calendarStats == Cal_getBookingStats(svc.cal)
    IN  [total |-> Len(svc.bookings),
         confirmed |-> countByStatus(svc, CONFIRMED),
         cancelled |-> countByStatus(svc, CANCELLED),
         pending |-> countByStatus(svc, PENDING),
         activeReservations |-> reservationsSize(svc),
         totalBooked |-> calendarStats.totalBooked,
         totalReserved |-> calendarStats.totalReserved]

\* hasBookingConflict(timeSlot, excludeUserId) called at time t
hasBookingConflict(svc, slotId, excludeUserId, t) ==
    LET reservation == svc.reservations[slotId]
    IN  IF ~isSlotAvailable(svc.cal, slotId)
        THEN TRUE
        ELSE IF reservation # NoReservation
                /\ reservation.userId # excludeUserId
        THEN t < reservation.expiresAt
        ELSE FALSE

\* new Map(entries) for the booking table: each key holds the value of the
\* last pair that carries it
bookingsFromEntries(entries) ==
    [k \in {entries[i][1] : i \in DOMAIN entries} |->
        LET last == CHOOSE i \in DOMAIN entries :
                       /\ entries[i][1] = k
                       /\ \A j \in DOMAIN entries : entries[j][1] = k => j <= i
        IN  entries[last][2]]

\* new Map(entries) for the ledger
reservationsFromEntries(entries) ==
    [s \in Slots |->
        IF \E e \in entries : e[1] = s
        THEN (CHOOSE e \in entries : e[1] = s)[2]
        ELSE NoReservation]

\* loadFromStorage with every saved reservation kept, expired or not
loadFromStorage_KeepsExpired(svc, t) ==
    IF ~svc.storage.saved
    THEN svc
    ELSE [svc EXCEPT
            !.bookings = bookingsFromEntries(svc.storage.bookings),
            !.reservations = reservationsFromEntries(svc.storage.reservations)]

\* loadFromStorage() in the constructor, run at time t
loadFromStorage(svc, t) ==
    IF ~svc.storage.saved
    THEN svc
    ELSE LET validReservations ==
                 {e \in svc.storage.reservations : t < e[2].expiresAt}
         IN  [svc EXCEPT
                !.bookings = bookingsFromEntries(svc.storage.bookings),
                !.reservations = reservationsFromEntries(validReservations)]

\* A BookingService constructed at time t over what localStorage holds, with
\* a new CalendarService
newBookingService(snapshot, t) ==
    loadFromStorage(
        [cal |-> [bookedSlots |-> [s \in Slots |-> None],
                  reservedSlots |-> {}, timers |-> {}],
         bookings |-> <<>>,
         reservations |-> [s \in Slots |-> NoReservation],
         storage |-> snapshot,
         storageFails |-> FALSE,
         thrown |-> FALSE], t)

\* The cleanup with the test of expiresAt left out
reservationCleanup_RemovesAll(svc, t) ==
    saveToStorage([svc EXCEPT !.reservations = [s \in Slots |-> NoReservation]])

\* The setInterval callback of startReservationCleanup, run at time t
reservationCleanup(svc, t) ==
    saveToStorage(
        [svc EXCEPT
           !.reservations =
               [s \in Slots |->
                   IF @[s] # NoReservation /\ t >= @[s].expiresAt
                   THEN NoReservation
                   ELSE @[s]]])

\* ---------------------------------------------------------------- actions
Store(svc) ==
    /\ bookedSlots' = svc.cal.bookedSlots
    /\ reservedSlots' = svc.cal.reservedSlots
    /\ timers' = svc.cal.timers
    /\ bookings' = svc.bookings
    /\ reservations' = svc.reservations
    /\ storage' = svc.storage

\* localStorage.getItem returns null
NoStorage == [saved |-> FALSE, bookings |-> <<>>, reservations |-> {}]

\* new CalendarService(); new BookingService() with nothing in localStorage
Init ==
    /\ now = 0
    /\ bookedSlots = [s \in Slots |-> None]
    /\ reservedSlots = {}
    /\ timers = {}
    /\ bookings = <<>>
    /\ reservations = [s \in Slots |-> NoReservation]
    /\ storage = NoStorage
    /\ issued = <<>>
    /\ storageFails = FALSE
    /\ call = NoCall
    /\ result = NoResult
    /\ state = NoState

CreateBooking ==
    \E contactInfo \in Contacts, timeSlot \in Slots, userId \in Owners :
        LET r == createBooking(Svc, contactInfo, timeSlot, userId)
        IN  /\ Len(bookings) < MaxBookings
            /\ Store(r.svc)
            /\ UNCHANGED <<now, issued, storageFails, call, result, state>>

ReserveSlot ==
    \E slotId \in Slots, userId \in Owners :
        LET r == reserveSlot(Svc, slotId, userId, now)
        IN  /\ Store(r.svc)
            /\ UNCHANGED <<now, issued, storageFails, call, result, state>>

ReleaseReservation ==
    \E slotId \in Slots, userId \in Owners :
        LET r == releaseReservation(Svc, slotId, userId)
        IN  /\ Store(r.svc)
            /\ UNCHANGED <<now, issued, storageFails, call, result, state>>

CancelBooking ==
    \E bookingId \in 1..MaxBookings, userId \in Owners :
        LET r == cancelBooking(Svc, bookingId, userId)
        IN  /\ Store(r.svc)
            /\ UNCHANGED <<now, issued, storageFails, call, result, state>>

\* A reservation's setTimeout callback runs when its time has come
AutoRelease ==
    \E timer \in timers :
        /\ timer.at <= now
        /\ Store([Svc EXCEPT !.cal = Cal_autoRelease(@, timer)])
        /\ UNCHANGED <<now, issued, storageFails, call, result, state>>

\* The setInterval callback. Its period is shorter than the reservation
\* timeout and its phase is unrelated to the callers: it may run at any moment.
ReservationCleanup ==
    /\ Store(reservationCleanup(Svc, now))
    /\ UNCHANGED <<now, issued, storageFails, call, result, state>>

\* Time passes once every setTimeout callback that is due has run
Tick ==
    /\ now < MaxTime
    /\ \A timer \in timers : timer.at > now
    /\ now' = now + 1
    /\ UNCHANGED <<bookedSlots, reservedSlots, timers, bookings, reservations,
                   storage, issued, storageFails, call, result, state>>

Next ==
    \/ CreateBooking
    \/ ReserveSlot
    \/ ReleaseReservation
    \/ CancelBooking
    \/ AutoRelease
    \/ ReservationCleanup
    \/ Tick

Spec == Init /\ [][Next]_vars

\* -------------------------------------------------------------- SpecLive
\* reserveSlot while the reservation's timer still falls within the time
\* that is modelled
ReserveSlotInTime ==
    /\ now + RESERVATION_TIMEOUT <= MaxTime
    /\ ReserveSlot

NextLive ==
    \/ CreateBooking
    \/ ReserveSlotInTime
    \/ ReleaseReservation
    \/ CancelBooking
    \/ AutoRelease
    \/ ReservationCleanup
    \/ Tick

\* Time advances and a setTimeout callback that is due is run
SpecLive ==
    Init /\ [][NextLive]_vars /\ WF_vars(Tick) /\ WF_vars(AutoRelease)

\* --------------------------------------------------------------- SpecIds
\* Values of Math.random().toString(36)
RandomStrings ==
    {<<"0", ".", "k", "7", "q", "2", "x", "9">>,
     <<"0", ".", "k", "7", "q", "2", "m", "4">>,
     <<"0", ".", "z">>}

\* createBooking with the ids it gives the booking (lines 87 and 92): one
\* Math.random() draw for each generator
CreateBookingWithIds ==
    \E contactInfo \in Contacts, timeSlot \in Slots, userId \in Owners,
       randomId \in RandomStrings, randomConf \in RandomStrings :
        LET r == createBooking(Svc, contactInfo, timeSlot, userId)
        IN  /\ Len(bookings) < MaxBookings
            /\ Store(r.svc)
            /\ issued' =
                  IF r.success
                  THEN Append(issued,
                         [id |-> generateBookingIdString(now, randomId),
                          confirmationId |->
                              generateConfirmationId(now, randomConf)])
                  ELSE issued
            /\ UNCHANGED <<now, storageFails, call, result, state>>

NextIds ==
    \/ CreateBookingWithIds
    \/ CancelBooking
    \/ Tick

SpecIds == Init /\ [][NextIds]_vars

\* ----------------------------------------------------------- SpecStorage
\* The page runs with a localStorage whose setItem throws (storage disabled
\* or full): every snapshot write of the behaviour fails
InitStorage ==
    /\ now = 0
    /\ bookedSlots = [s \in Slots |-> None]
    /\ reservedSlots = {}
    /\ timers = {}
    /\ bookings = <<>>
    /\ reservations = [s \in Slots |-> NoReservation]
    /\ storage = NoStorage
    /\ issued = <<>>
    /\ storageFails = TRUE
    /\ call = NoCall
    /\ result = NoResult
    /\ state = NoState

SpecStorage == InitStorage /\ [][Next]_vars

\* ------------------------------------------------------------- SpecTable
\* createBooking and cancelBooking alone, on a table that may grow one
\* booking longer
CreateBookingAgain ==
    \E contactInfo \in Contacts, timeSlot \in Slots, userId \in Owners :
        LET r == createBooking(Svc, contactInfo, timeSlot, userId)
        IN  /\ Len(bookings) <= MaxBookings
            /\ Store(r.svc)
            /\ UNCHANGED <<now, issued, storageFails, call, result, state>>

CancelAnyBooking ==
    \E bookingId \in 1..(MaxBookings + 1), userId \in Owners :
        LET r == cancelBooking(Svc, bookingId, userId)
        IN  /\ Store(r.svc)
            /\ UNCHANGED <<now, issued, storageFails, call, result, state>>

NextTable ==
    \/ CreateBookingAgain
    \/ CancelAnyBooking

SpecTable == Init /\ [][NextTable]_vars

\* --------------------------------------------------------------- SpecCal
\* CalendarService called directly, as the calendar component does
Timeouts == {2, RESERVATION_TIMEOUT}

CalReserveSlot ==
    \E slotId \in Slots, reservationTimeoutMs \in Timeouts :
        /\ Store([Svc EXCEPT !.cal = Cal_reserveSlot(
                      @, slotId, reservationTimeoutMs, now).cal])
        /\ UNCHANGED <<now, issued, storageFails, call, result, state>>

CalBookSlot ==
    \E slotId \in Slots, userId \in Owners :
        /\ Store([Svc EXCEPT !.cal = bookSlot(@, slotId, userId).cal])
        /\ UNCHANGED <<now, issued, storageFails, call, result, state>>

CalCancelBooking ==
    \E slotId \in Slots, userId \in Owners :
        /\ Store([Svc EXCEPT !.cal = Cal_cancelBooking(@, slotId, userId).cal])
        /\ UNCHANGED <<now, issued, storageFails, call, result, state>>

ClearReservations ==
    /\ Store([Svc EXCEPT !.cal = clearReservations(@)])
    /\ UNCHANGED <<now, issued, storageFails, call, result, state>>

ClearBookings ==
    /\ Store([Svc EXCEPT !.cal = clearBookings(@)])
    /\ UNCHANGED <<now, issued, storageFails, call, result, state>>

NextCal ==
    \/ CalReserveSlot
    \/ CalBookSlot
    \/ CalCancelBooking
    \/ ClearReservations
    \/ ClearBookings
    \/ AutoRelease
    \/ Tick

SpecCal == Init /\ [][NextCal]_vars

\* ------------------------------------------------------------- SpecCalls
\* Single calls of functions whose result depends on their arguments only,
\* made on newly constructed services
TimeStrings ==
    {<<"0", "9", ":", "0", "0">>, <<"0", "9", ":", "3", "0">>,
     <<"1", "0", ":", "0", "0">>, <<"1", "0", ":", "3", "0">>}
Intervals == {15, 30, 45}
\* Local time minus UTC, in hours
UtcOffsets == {-5, 0, 2}

GenerateTimeSlotsCalls ==
    [fn : {"generateTimeSlots"},
     startDate : 1..MaxDay, endDate : 1..MaxDay,
     startTime : {<<"0", "9", ":", "0", "0">>},
     endTime : {<<"1", "0", ":", "0", "0">>},
     intervalMinutes : {30},
     utcOffset : UtcOffsets]

GenerateDailySlotsCalls ==
    [fn : {"generateDailySlots"},
     date : {1},
     startTime : TimeStrings, endTime : TimeStrings,
     intervalMinutes : Intervals]

Names ==
    {<<>>, <<"J">>, <<"J", "o">>, <<"J", "0", "e">>,
     <<" ", "J", "o", "<", "e">>, <<"<", " ", "J", "o", "e">>}
Emails ==
    {<<>>, <<"b", "a", "d">>, <<"J", "@", "x", ".", "i", "o">>,
     <<" ", "j", "@", "x", ".", "i", "o", " ">>}
NineDigits == <<"1", "2", "3", "4", "5", "6", "7", "8", "9">>
Phones ==
    {<<>>, <<"1">>, <<"(", "1", "2", ")", " ", "3", "-", "4">>,
     NineDigits,
     NineDigits \o <<"0">>,
     <<"(", "1", "2", "3", ")", " ", "4", "5", "6", "-",
       "7", "8", "9", "0">>,
     <<"+">> \o NineDigits \o <<"0", "1", "2", "3", "4", "5">>,
     NineDigits \o <<"0", "1", "2", "3", "4", "5", "6">>,
     NineDigits \o <<"0", "1", "2", "3", "4", "5", "6", "7">>}

ValidateContactFormCalls ==
    [fn : {"validateContactForm"},
     name : Names, email : Emails, phone : Phones]

ValidateContactInfoCalls ==
    [fn : {"validateContactInfo"},
     contactInfo : [name : Names, email : Emails, phone : Phones]]

CreateBookingCalls ==
    [fn : {"createBooking"},
     contactInfo : [name : Names, email : Emails, phone : Phones]
                       \cup Contacts,
     timeSlot : {"s1"}, userId : {"A"}]

Calls ==
    GenerateTimeSlotsCalls \cup GenerateDailySlotsCalls
        \cup ValidateContactFormCalls \cup ValidateContactInfoCalls
        \cup CreateBookingCalls

InitCalls ==
    /\ now = 0
    /\ bookedSlots = [s \in Slots |-> None]
    /\ reservedSlots = {}
    /\ timers = {}
    /\ bookings = <<>>
    /\ reservations = [s \in Slots |-> NoReservation]
    /\ storage = NoStorage
    /\ issued = <<>>
    /\ storageFails = FALSE
    /\ call \in Calls
    /\ result = NoResult
    /\ state = NoState

\* The call returns value
Return(value) ==
    /\ ~result.done
    /\ result' = [done |-> TRUE, value |-> value]
    /\ UNCHANGED <<now, bookedSlots, reservedSlots, timers, bookings,
                   reservations, storage, issued, storageFails, call, state>>

GenerateTimeSlots ==
    /\ call.fn = "generateTimeSlots"
    /\ Return(generateTimeSlots(call.startDate, call.endDate, call.startTime,
                                call.endTime, call.intervalMinutes,
                                call.utcOffset))

GenerateDailySlots ==
    /\ call.fn = "generateDailySlots"
    /\ Return(generateDailySlots(call.date, call.startTime, call.endTime,
                                 call.intervalMinutes))

ValidateContactForm ==
    /\ call.fn = "validateContactForm"
    /\ Return(validateContactForm(call.name, call.email, call.phone))

ValidateContactInfo ==
    /\ call.fn = "validateContactInfo"
    /\ Return(validateContactInfo(call.contactInfo))

\* createBooking on the new service: what the caller gets back and what is
\* stored
CallCreateBooking ==
    /\ call.fn = "createBooking"
    /\ ~result.done
    /\ LET r == createBooking(Svc, call.contactInfo, call.timeSlot,
                              call.userId)
       IN  /\ result' = [done |-> TRUE,
                         value |-> [success |-> r.success, error |-> r.error,
                                    data |-> r.data]]
           /\ Store(r.svc)
    /\ UNCHANGED <<now, issued, storageFails, call, state>>

NextCalls ==
    \/ GenerateTimeSlots
    \/ GenerateDailySlots
    \/ ValidateContactForm
    \/ ValidateContactInfo
    \/ CallCreateBooking

SpecCalls == InitCalls /\ [][NextCalls]_vars

\* -------------------------------------------------------------- SpecLoop
\* generateDailySlots run one iteration of its for loop at a time: result
\* holds the loop variable minutes and the array slots until the function
\* returns. Iterations beyond MaxSlots are not followed.
MaxSlots == 3

LoopIntervals == {-15, 0, 15, 30}

GenerateDailySlotsLoopCalls ==
    [fn : {"generateDailySlots"},
     date : {1},
     startTime : TimeStrings, endTime : TimeStrings,
     intervalMinutes : LoopIntervals]

\* The function is entered: slots = [], minutes = startMinutes
InitLoop ==
    /\ now = 0
    /\ bookedSlots = [s \in Slots |-> None]
    /\ reservedSlots = {}
    /\ timers = {}
    /\ bookings = <<>>
    /\ reservations = [s \in Slots |-> NoReservation]
    /\ storage = NoStorage
    /\ issued = <<>>
    /\ storageFails = FALSE
    /\ call \in GenerateDailySlotsLoopCalls
    /\ result = [done |-> FALSE,
                 minutes |-> timeToMinutes(call.startTime),
                 slots |-> <<>>]
    /\ state = NoState

\* The loop condition minutes < endMinutes of the call under way
loopCondition == result.minutes < timeToMinutes(call.endTime)

\* The loop body and minutes += intervalMinutes
LoopIteration ==
    /\ ~result.done
    /\ loopCondition
    /\ Len(result.slots) < MaxSlots
    /\ LET slotStartTime == minutesToTimeString(result.minutes)
           slotEndTime ==
               minutesToTimeString(result.minutes + call.intervalMinutes)
       IN  result' = [result EXCEPT
                        !.slots = Append(@, [id |-> <<call.date, "_",
                                                      slotStartTime>>,
                                             date |-> call.date,
                                             startTime |-> slotStartTime,
                                             endTime |-> slotEndTime]),
                        !.minutes = @ + call.intervalMinutes]
    /\ UNCHANGED <<now, bookedSlots, reservedSlots, timers, bookings,
                   reservations, storage, issued, storageFails, call, state>>

\* The loop condition fails: return slots
LoopReturn ==
    /\ ~result.done
    /\ ~loopCondition
    /\ result' = [done |-> TRUE, value |-> result.slots]
    /\ UNCHANGED <<now, bookedSlots, reservedSlots, timers, bookings,
                   reservations, storage, issued, storageFails, call, state>>

NextLoop ==
    \/ LoopIteration
    \/ LoopReturn

SpecLoop == InitLoop /\ [][NextLoop]_vars

\* --------------------------------------------------------- BookingContext
\* null, where an object is expected
Null == [null |-> TRUE]

CONTACT_COLLECTION == "contact_collection"
CONFIRMATION == "confirmation"
CLOSED == "closed"

\* {...a, ...b}: the fields of a, those of b over them; null has no fields
Spread(a, b) ==
    LET fieldsOfA == IF a = Null THEN {} ELSE DOMAIN a
        fieldsOfB == IF b = Null THEN {} ELSE DOMAIN b
    IN  [k \in fieldsOfA \cup fieldsOfB |-> IF k \in fieldsOfB THEN b[k] ELSE a[k]]

\* `booking_${Date.now()}_${Math.random().toString(36).substr(2, 9)}`
generateSessionId(t, random) == <<"booking_", t, "_", substr(random, 2, 9)>>

initialState(sessionId) ==
    [currentBooking |-> Null,
     modalState |-> CLOSED,
     contactInfo |-> Null,
     selectedSlot |-> Null,
     bookingHistory |-> <<>>,
     isLoading |-> FALSE,
     error |-> None,
     validationErrors |-> <<>>,
     reservedSlotId |-> None,
     sessionId |-> sessionId]

\* bookingReducer, one operator for each action type that the action
\* creators and the effects dispatch; t is Date.now()
START_BOOKING(s, t) ==
    [s EXCEPT
       !.modalState = CONTACT_COLLECTION,
       !.currentBooking = [id |-> <<"booking_", t>>,
                           status |-> PENDING,
                           createdAt |-> t],
       !.error = None,
       !.validationErrors = <<>>]

SET_CONTACT_INFO(s, payload) ==
    [s EXCEPT
       !.contactInfo = payload,
       !.currentBooking = IF @ # Null
                          THEN Spread(@, [contactInfo |-> payload])
                          ELSE Null]

SET_SELECTED_SLOT(s, payload) ==
    [s EXCEPT
       !.selectedSlot = payload,
       !.currentBooking = IF @ # Null
                          THEN Spread(@, [timeSlot |-> payload])
                          ELSE Null]

SET_VALIDATION_ERRORS(s, payload) == [s EXCEPT !.validationErrors = payload]

COMPLETE_BOOKING(s, payload, t, random) ==
    LET completedBooking ==
            Spread(Spread(s.currentBooking, payload),
                   [status |-> CONFIRMED,
                    confirmationId |->
                        <<"conf_", t, "_", substr(random, 2, 6)>>])
    IN  [s EXCEPT
           !.currentBooking = completedBooking,
           !.modalState = CONFIRMATION,
           !.bookingHistory = Append(@, completedBooking),
           !.isLoading = FALSE,
           !.error = None]

CANCEL_BOOKING(s) ==
    [s EXCEPT
       !.currentBooking = Null,
       !.modalState = CLOSED,
       !.contactInfo = Null,
       !.selectedSlot = Null,
       !.error = None,
       !.validationErrors = <<>>,
       !.reservedSlotId = None]

\* RESET_BOOKING with the history dropped as well
RESET_BOOKING_DropsHistory(s, sessionId) == initialState(sessionId)

\* sessionId is what generateSessionId() returns
RESET_BOOKING(s, sessionId) ==
    [initialState(sessionId) EXCEPT !.bookingHistory = s.bookingHistory]

LOAD_FROM_STORAGE(s, payload) == Spread(s, payload)

RESERVE_SLOT(s, payload) == [s EXCEPT !.reservedSlotId = payload]

RELEASE_SLOT(s) == [s EXCEPT !.reservedSlotId = None]

\* validateContactInfo of the provider
Ctx_validateContactInfo(contactInfo) ==
    LET nameErrors ==
            IF contactInfo.name = <<>> \/ Len(trim(contactInfo.name)) < 2
            THEN <<[field |-> "name", type |-> "required_field"]>>
            ELSE <<>>
        emailErrors ==
            IF contactInfo.email = <<>> \/ ~emailRegexTest(contactInfo.email)
            THEN <<[field |-> "email", type |-> "invalid_email"]>>
            ELSE <<>>
        cleanPhone ==
            removeChars(contactInfo.phone, Whitespace \cup {"-", "(", ")"})
        phoneErrors ==
            IF contactInfo.phone = <<>> \/ ~phoneRegexTest(cleanPhone)
            THEN <<[field |-> "phone", type |-> "invalid_phone"]>>
            ELSE <<>>
        errors == nameErrors \o emailErrors \o phoneErrors
    IN  [isValid |-> Len(errors) = 0, errors |-> errors]

\* The action creators: s is the reducer's state when the dispatch is
\* applied, rendered the state of the render whose closure is called
startBooking(s, t) == START_BOOKING(s, t)

setContactInfo(s, contactInfo) ==
    LET validationResult == Ctx_validateContactInfo(contactInfo)
    IN  IF validationResult.isValid
        THEN SET_VALIDATION_ERRORS(SET_CONTACT_INFO(s, contactInfo), <<>>)
        ELSE SET_VALIDATION_ERRORS(s, validationResult.errors)

setSelectedSlot(s, slot) == SET_SELECTED_SLOT(s, slot)

\* completeBooking without its condition
completeBooking_Unguarded(rendered, s, t, random) ==
    COMPLETE_BOOKING(s, [contactInfo |-> rendered.contactInfo,
                         timeSlot |-> rendered.selectedSlot], t, random)

completeBooking(rendered, s, t, random) ==
    IF /\ rendered.currentBooking # Null
       /\ rendered.contactInfo # Null
       /\ rendered.selectedSlot # Null
    THEN COMPLETE_BOOKING(s, [contactInfo |-> rendered.contactInfo,
                              timeSlot |-> rendered.selectedSlot], t, random)
    ELSE s

Ctx_cancelBooking(s) == CANCEL_BOOKING(s)

resetBooking(s, t, random) == RESET_BOOKING(s, generateSessionId(t, random))

Ctx_reserveSlot(s, slotId) == RESERVE_SLOT(s, slotId)

releaseSlot(s) == RELEASE_SLOT(s)

\* What the effect of lines 256-269 writes to localStorage['booking_state']
stateToSave(s) ==
    [currentBooking |-> s.currentBooking,
     modalState |-> s.modalState,
     contactInfo |-> s.contactInfo,
     selectedSlot |-> s.selectedSlot,
     reservedSlotId |-> s.reservedSlotId,
     sessionId |-> s.sessionId]

\* The effect of lines 230-253 on mount, over what the last render saved
loadedState(fresh, rendered) ==
    LOAD_FROM_STORAGE(fresh,
        Spread(stateToSave(rendered),
               [bookingHistory |-> rendered.bookingHistory,
                sessionId |-> rendered.sessionId,
                isLoading |-> FALSE]))

\* ----------------------------------------------------- SpecContext
\* A BookingProvider is mounted. Each step is an event handler that calls
\* action creators of the current render, after which React renders again
\* (and the effect saves the state): a handler calls one action creator, or
\* one action creator and then completeBooking(), which reads the state of
\* the render the handler belongs to.
MaxHistory == 2

JaneRoe ==
    [name  |-> <<"J", "R">>,
     email |-> <<"r", "@", "x", ".", "i", "o">>,
     phone |-> <<"+", "4", "4">>]

ContextContacts == {JohnDoe, JaneRoe, BadContact}

\* TimeSlot objects of the calendar
TimeSlots == {[id |-> s] : s \in Slots}

\* Values of Math.random().toString(36)
ContextRandoms == {<<"0", ".", "k", "7">>, <<"0", ".", "z">>}

\* The draw for a confirmation id: one value, so that histories stay few
ConfirmationRandoms == {<<"0", ".", "q", "2">>}

InitContext ==
    /\ now = 0
    /\ bookedSlots = [s \in Slots |-> None]
    /\ reservedSlots = {}
    /\ timers = {}
    /\ bookings = <<>>
    /\ reservations = [s \in Slots |-> NoReservation]
    /\ storage = NoStorage
    /\ issued = <<>>
    /\ storageFails = FALSE
    /\ call = NoCall
    /\ result = NoResult
    /\ state \in {initialState(generateSessionId(0, random)) :
                     random \in ContextRandoms}

\* The states one call of an action creator other than completeBooking can
\* leave
AfterOneCall(s) ==
    {startBooking(s, now), Ctx_cancelBooking(s), releaseSlot(s)}
        \cup {setContactInfo(s, contactInfo) : contactInfo \in ContextContacts}
        \cup {setSelectedSlot(s, slot) : slot \in TimeSlots}
        \cup {resetBooking(s, now, random) : random \in ContextRandoms}
        \cup {Ctx_reserveSlot(s, slotId) : slotId \in Slots}

\* React renders the provider with the reduced state s
Rendered(s) ==
    /\ state' = s
    /\ UNCHANGED <<now, bookedSlots, reservedSlots, timers, bookings,
                   reservations, storage, issued, storageFails, call, result>>

StartBooking == Rendered(startBooking(state, now))

SetContactInfo ==
    \E contactInfo \in ContextContacts :
        Rendered(setContactInfo(state, contactInfo))

SetSelectedSlot ==
    \E slot \in TimeSlots : Rendered(setSelectedSlot(state, slot))

CompleteBooking ==
    /\ Len(state.bookingHistory) < MaxHistory
    /\ \E random \in ConfirmationRandoms :
          Rendered(completeBooking(state, state, now, random))

\* A handler calls another action creator and then completeBooking()
ThenCompleteBooking ==
    /\ Len(state.bookingHistory) < MaxHistory
    /\ \E s \in AfterOneCall(state), random \in ConfirmationRandoms :
          Rendered(completeBooking(state, s, now, random))

CtxCancelBooking == Rendered(Ctx_cancelBooking(state))

ResetBooking ==
    \E random \in ContextRandoms : Rendered(resetBooking(state, now, random))

CtxReserveSlot ==
    \E slotId \in Slots : Rendered(Ctx_reserveSlot(state, slotId))

ReleaseSlot == Rendered(releaseSlot(state))

\* The page is loaded again: a new provider is mounted and loads what the
\* last render saved
Reload ==
    \E random \in ContextRandoms :
        Rendered(loadedState(initialState(generateSessionId(now, random)),
                             state))

NextContext ==
    \/ StartBooking
    \/ SetContactInfo
    \/ SetSelectedSlot
    \/ CompleteBooking
    \/ ThenCompleteBooking
    \/ CtxCancelBooking
    \/ ResetBooking
    \/ CtxReserveSlot
    \/ ReleaseSlot
    \/ Reload

SpecContext == InitContext /\ [][NextContext]_vars

\* ----------------------------------------------------------- SpecHistory
\* The six action creators that make the booking history, each booking
\* started at a later time than the one before; one booking more is started
\* than the history may hold
StartBookingLater ==
    /\ now <= MaxHistory
    /\ now' = now + 1
    /\ state' = startBooking(state, now')
    /\ UNCHANGED <<bookedSlots, reservedSlots, timers, bookings, reservations,
                   storage, issued, storageFails, call, result>>

NextHistory ==
    \/ StartBookingLater
    \/ SetContactInfo
    \/ SetSelectedSlot
    \/ CompleteBooking
    \/ CtxCancelBooking
    \/ ResetBooking

SpecHistory == InitContext /\ [][NextHistory]_vars

\* ------------------------------------------------------------- SpecModal
\* AppointmentBookingModal over the CalendarService singleton. In SpecModal
\* state holds the modal's isOpen prop, its useState values and the slot
\* clicks whose setTimeout has not run yet; call is the last onComplete call
\* made to the parent.
CALENDAR_SELECTION == "calendar_selection"

\* bookingState after mount and after resetModalState
NoBookingState ==
    [contactInfo |-> Null, selectedSlot |-> Null, confirmation |-> Null]

\* The modal as mounted by ChatInterface, closed
modalInitialState ==
    [isOpen            |-> FALSE,
     currentStep       |-> CONTACT_COLLECTION,
     bookingState      |-> NoBookingState,
     availableSlots    |-> {},
     isLoading         |-> FALSE,
     hasUnsavedChanges |-> FALSE,
     clicks            |-> {}]

\* getAvailableSlots(): the generated slots that are neither booked nor reserved
getAvailableSlots(cal) ==
    {slot \in TimeSlots : isSlotAvailable(cal, slot.id)}

\* loadAvailableSlots, run to its end: the await is on a plain value
loadAvailableSlots(m, cal) ==
    [m EXCEPT !.availableSlots = getAvailableSlots(cal), !.isLoading = FALSE]

resetModalState(m) ==
    [m EXCEPT !.currentStep = CONTACT_COLLECTION,
              !.bookingState = NoBookingState,
              !.hasUnsavedChanges = FALSE]

\* The effect on [isOpen]
openCloseEffect(m, cal) ==
    IF m.isOpen THEN loadAvailableSlots(m, cal) ELSE resetModalState(m)

handleContactSubmit(m, contactInfo) ==
    [m EXCEPT !.bookingState = Spread(@, [contactInfo |-> contactInfo]),
              !.currentStep = CALENDAR_SELECTION,
              !.hasUnsavedChanges = TRUE]

\* `APT-${Date.now()}-${Math.random().toString(36).substr(2, 9).toUpperCase()}`
modalConfirmationId(t, random) ==
    <<"APT-", t, "-", toUpperCase(substr(random, 2, 9))>>

\* handleSlotSelect(slot) at time t, run to its end. contactInfo is the
\* bookingState.contactInfo of the render that created the callback.
\* CalendarService.reserveSlot returns a boolean and never throws: the await
\* is on a plain value, its value is dropped, the catch block is never
\* entered and the rest of the try block always runs.
handleSlotSelect(m, cal, contactInfo, slot, t, random) ==
    IF contactInfo = Null
    THEN [modal |-> m, cal |-> cal]
    ELSE LET confirmation ==
                 [name |-> contactInfo.name,
                  phone |-> contactInfo.phone,
                  email |-> contactInfo.email,
                  selectedSlot |-> slot,
                  confirmationId |-> modalConfirmationId(t, random)]
             reserved == Cal_reserveSlot(cal, slot.id, RESERVATION_TIMEOUT, t)
         IN  [modal |->
                  [m EXCEPT
                     !.bookingState =
                         Spread(@, [selectedSlot |-> slot,
                                    confirmation |-> confirmation]),
                     !.currentStep = CONFIRMATION,
                     !.hasUnsavedChanges = FALSE,
                     !.isLoading = FALSE],
              cal |-> reserved.cal]

\* The Confirmation component, which holds the return button, is rendered
confirmationShown(m) ==
    m.isOpen /\ m.currentStep = CONFIRMATION
             /\ m.bookingState.confirmation # Null

\* handleReturnToChat: the onComplete call it makes, if any; onClose follows
handleReturnToChat(m) ==
    IF m.bookingState.confirmation # Null
    THEN [fn |-> "onComplete", booking |-> m.bookingState.confirmation]
    ELSE NoCall

handleBack(m) ==
    CASE m.currentStep = CALENDAR_SELECTION ->
             [m EXCEPT !.currentStep = CONTACT_COLLECTION]
      [] m.currentStep = CONFIRMATION ->
             [m EXCEPT !.currentStep = CALENDAR_SELECTION]
      [] OTHER -> m

\* handleClose reaches onClose; shouldClose is the answer to window.confirm
handleClose(m, shouldClose) ==
    ~(m.hasUnsavedChanges /\ m.currentStep # CONFIRMATION /\ ~shouldClose)

\* The parent's onClose and onComplete handlers set isOpen to false, and the
\* effect on [isOpen] resets the modal
closedByParent(m, cal) == openCloseEffect([m EXCEPT !.isOpen = FALSE], cal)

\* Contacts that pass the contact form
ModalContacts == {JohnDoe}

InitModal ==
    /\ now = 0
    /\ bookedSlots = [s \in Slots |-> None]
    /\ reservedSlots = {}
    /\ timers = {}
    /\ bookings = <<>>
    /\ reservations = [s \in Slots |-> NoReservation]
    /\ storage = NoStorage
    /\ issued = <<>>
    /\ storageFails = FALSE
    /\ call = NoCall
    /\ result = NoResult
    /\ state = modalInitialState

\* ChatInterface opens the modal
OpenModal ==
    /\ ~state.isOpen
    /\ state' = openCloseEffect([state EXCEPT !.isOpen = TRUE], Svc.cal)
    /\ UNCHANGED <<now, bookedSlots, reservedSlots, timers, bookings,
                   reservations, storage, issued, storageFails, call, result>>

\* The contact form is submitted with valid contact details
HandleContactSubmit ==
    /\ state.isOpen /\ state.currentStep = CONTACT_COLLECTION
    /\ \E contactInfo \in ModalContacts :
           state' = handleContactSubmit(state, contactInfo)
    /\ UNCHANGED <<now, bookedSlots, reservedSlots, timers, bookings,
                   reservations, storage, issued, storageFails, call, result>>

\* CalendarSelection.handleSlotClick: a slot of the list loaded when the
\* modal opened is clicked; onSlotSelect is called 200 ms later
HandleSlotClick ==
    /\ state.isOpen /\ state.currentStep = CALENDAR_SELECTION
    /\ ~state.isLoading
    /\ \E slot \in state.availableSlots :
           /\ \A click \in state.clicks : click.slot # slot
           /\ state' = [state EXCEPT !.clicks = @ \cup
                            {[slot |-> slot,
                              contactInfo |-> state.bookingState.contactInfo]}]
    /\ UNCHANGED <<now, bookedSlots, reservedSlots, timers, bookings,
                   reservations, storage, issued, storageFails, call, result>>

\* The setTimeout callback of a click calls handleSlotSelect
HandleSlotSelect ==
    \E click \in state.clicks, random \in ConfirmationRandoms :
        LET m == [state EXCEPT !.clicks = @ \ {click}]
            r == handleSlotSelect(m, Svc.cal, click.contactInfo, click.slot,
                                  now, random)
        IN  /\ state' = r.modal
            /\ Store([Svc EXCEPT !.cal = r.cal])
            /\ UNCHANGED <<now, issued, storageFails, call, result>>

\* The back button and the Escape key of CalendarSelection
HandleBack ==
    /\ state.isOpen /\ state.currentStep = CALENDAR_SELECTION
    /\ state' = handleBack(state)
    /\ UNCHANGED <<now, bookedSlots, reservedSlots, timers, bookings,
                   reservations, storage, issued, storageFails, call, result>>

\* The return button of the Confirmation component
HandleReturnToChat ==
    /\ confirmationShown(state)
    /\ call' = handleReturnToChat(state)
    /\ state' = closedByParent(state, Svc.cal)
    /\ UNCHANGED <<now, bookedSlots, reservedSlots, timers, bookings,
                   reservations, storage, issued, storageFails, result>>

\* The close button, the Escape key and a click on the backdrop
HandleClose ==
    /\ state.isOpen
    /\ \E shouldClose \in BOOLEAN :
           /\ handleClose(state, shouldClose)
           /\ state' = closedByParent(state, Svc.cal)
    /\ UNCHANGED <<now, bookedSlots, reservedSlots, timers, bookings,
                   reservations, storage, issued, storageFails, call, result>>

\* Time passes once the 200 ms of every click have passed as well
ModalTick ==
    /\ state.clicks = {}
    /\ Tick

\* CalBookSlot: BookingService, the other user of the CalendarService
\* singleton, books a slot
NextModal ==
    \/ OpenModal
    \/ HandleContactSubmit
    \/ HandleSlotClick
    \/ HandleSlotSelect
    \/ HandleBack
    \/ HandleReturnToChat
    \/ HandleClose
    \/ CalBookSlot
    \/ AutoRelease
    \/ ModalTick

SpecModal == InitModal /\ [][NextModal]_vars

\* ------------------------------------------------------------ vocabulary
ValidContacts == {c \in Contacts : validateContactInfo(c).isValid}

Booked(slotId) == bookedSlots[slotId] # None

\* Reserved in CalendarService or in BookingService's ledger
Reserved(slotId) ==
    slotId \in reservedSlots \/ reservations[slotId] # NoReservation

\* The ledger holds a reservation of userId on slotId that has not expired
LiveHold(slotId, userId) ==
    /\ reservations[slotId] # NoReservation
    /\ reservations[slotId].userId = userId
    /\ now < reservations[slotId].expiresAt

Available(slotId) == isSlotAvailable(Svc.cal, slotId)

\* ------------------------------------------------------------------ claims

\* C1: two createBooking calls by different owners with valid contacts on a
\* slot that is available and unreserved, made one after the other in either
\* order: exactly one returns success, the other a failure.
C1_ExactlyOneBookingWins ==
    \A slotId \in Slots, a \in Owners, b \in Owners, ca \in ValidContacts,
       cb \in ValidContacts :
        (a # b /\ Available(slotId) /\ ~Reserved(slotId)) =>
            LET first == createBooking(Svc, ca, slotId, a)
                second == createBooking(first.svc, cb, slotId, b)
            IN  /\ first.success # second.success
                /\ ~(first.success /\ second.success)

\* A free slot, after earlier bookings, on which the first caller wins and
\* the second is told the slot is gone
C1_Witness ==
    \E slotId \in Slots, a \in Owners, b \in Owners, c \in ValidContacts :
        /\ a # b /\ Available(slotId) /\ ~Reserved(slotId)
        /\ bookings # <<>>
        /\ LET first == createBooking(Svc, c, slotId, a)
               second == createBooking(first.svc, c, slotId, b)
           IN  /\ first.success
               /\ second.error = "Selected time slot is no longer available"

\* C2: no slot is at once booked (CalendarService.bookedSlots) and reserved
\* (CalendarService.reservedSlots or BookingService.reservations).
C2_NeverBookedAndReserved ==
    \A slotId \in Slots : ~(Booked(slotId) /\ Reserved(slotId))

\* A booked slot with no reservation left on it, in the ledger or in the
\* snapshot, next to another slot that is reserved
C2_Witness ==
    \E slotId \in Slots, other \in Slots :
        /\ Booked(slotId) /\ ~Reserved(slotId)
        /\ storage.saved /\ \A e \in storage.reservations : e[1] # slotId
        /\ other # slotId /\ other \in reservedSlots
        /\ reservations[other] # NoReservation

\* C3: a createBooking call succeeds (appends a booking) only if, when it is
\* made, the slot is not booked and is either unreserved or held by a
\* reservation of the requesting owner; so never on a slot held by a live
\* reservation of another owner.
C3_BooksOnlyFreeOrOwnSlot ==
    [][Len(bookings') > Len(bookings) =>
         LET slot == bookings'[Len(bookings')].timeSlot
         IN  /\ ~Booked(slot.id)
             /\ \/ ~Reserved(slot.id)
                \/ reservations[slot.id].userId = slot.bookedBy
             /\ \A other \in Owners \ {slot.bookedBy} :
                    ~LiveHold(slot.id, other)]_vars

\* A slot whose ledger entry belongs to the caller and on which the caller's
\* createBooking succeeds
C3_Witness ==
    \E slotId \in Slots, userId \in Owners, c \in ValidContacts :
        /\ reservations[slotId].userId = userId
        /\ createBooking(Svc, c, slotId, userId).success

\* C4: while owner A holds a live reservation on S (reserveSlot returned true,
\* not expired, not released), createBooking(validContact, S, A) succeeds.
C4_OwnReservationCanBeBooked ==
    \A slotId \in Slots, a \in Owners, c \in ValidContacts :
        LiveHold(slotId, a) => createBooking(Svc, c, slotId, a).success

\* C5: while owner A holds a live reservation on S, reserveSlot(S, A) returns
\* true and S still has one reservation, owned by A.
C5_ReReserveIsIdempotent ==
    \A slotId \in Slots, a \in Owners :
        LiveHold(slotId, a) =>
            LET r == reserveSlot(Svc, slotId, a, now)
            IN  /\ r.ok
                /\ r.svc.reservations[slotId].userId = a
                /\ slotId \in r.svc.cal.reservedSlots

\* C6: on an available slot S and for distinct owners A and B, the calls
\* reserveSlot(S,A), reserveSlot(S,B), releaseReservation(S,A),
\* reserveSlot(S,B), made with no time passing, return true, false, true, true.
C6_ReleaseFreesSlotAtOnce ==
    \A slotId \in Slots, a \in Owners, b \in Owners :
        (a # b /\ Available(slotId) /\ ~Reserved(slotId)) =>
            LET r1 == reserveSlot(Svc, slotId, a, now)
                r2 == reserveSlot(r1.svc, slotId, b, now)
                r3 == releaseReservation(r2.svc, slotId, a)
                r4 == reserveSlot(r3.svc, slotId, b, now)
            IN  <<r1.ok, r2.ok, r3.ok, r4.ok>> = <<TRUE, FALSE, TRUE, TRUE>>

\* C7: a reservation that was not turned into a booking blocks nothing once
\* its expiry time has passed: the slot is reported available, and reserveSlot
\* and createBooking by any other owner go through, cleanup or not.
C7_ExpiredReservationBlocksNothing ==
    \A slotId \in Slots, c \in ValidContacts :
        (reservations[slotId] # NoReservation
            /\ now > reservations[slotId].expiresAt) =>
            /\ Available(slotId)
            /\ \A other \in Owners \ {reservations[slotId].userId} :
                   /\ reserveSlot(Svc, slotId, other, now).ok
                   /\ createBooking(Svc, c, slotId, other).success

\* C8: cancelBooking with an unknown booking id, or by an owner who is not the
\* booking's owner, returns false and changes nothing.
C8_ForeignCancelIsRefused ==
    \A bookingId \in 1..(MaxBookings + 1), userId \in Owners :
        (\/ bookingId \notin DOMAIN bookings
         \/ bookings[bookingId].timeSlot.bookedBy # userId) =>
            LET r == cancelBooking(Svc, bookingId, userId)
            IN  ~r.ok /\ r.svc = Svc

\* A confirmed booking of one owner, with another owner there to try
C8_Witness ==
    \E bookingId \in DOMAIN bookings, userId \in Owners :
        /\ bookings[bookingId].status = CONFIRMED
        /\ bookings[bookingId].timeSlot.bookedBy # userId
        /\ Booked(bookings[bookingId].timeSlot.id)
        /\ ~cancelBooking(Svc, bookingId, userId).ok

C10_SecondCancelIsRefused ==
    \A bookingId \in DOMAIN bookings, a \in Owners :
        LET r1 == cancelBooking(Svc, bookingId, a)
            r2 == cancelBooking(r1.svc, bookingId, a)
        IN  /\ (/\ bookings[bookingId].status = CONFIRMED
                /\ bookings[bookingId].timeSlot.bookedBy = a) =>
                    (r1.ok /\ ~r2.ok)
            /\ bookings[bookingId].status = CANCELLED => ~r1.ok

\* C11: whenever cancelBooking(bookingId, owner) returns true, right after the
\* call the booking's slot is available in CalendarService (not booked, not
\* reserved) and the booking's status is Cancelled.
C11_CancelFreesTheSlot ==
    \A bookingId \in DOMAIN bookings, userId \in Owners :
        LET r == cancelBooking(Svc, bookingId, userId)
        IN  r.ok =>
              /\ isSlotAvailable(r.svc.cal, bookings[bookingId].timeSlot.id)
              /\ r.svc.bookings[bookingId].status = CANCELLED

\* C12: every booking with status Confirmed has its slot booked in
\* CalendarService by the booking's owner.
C12_ConfirmedBookingHoldsItsSlot ==
    \A bookingId \in DOMAIN bookings :
        bookings[bookingId].status = CONFIRMED =>
            bookedSlots[bookings[bookingId].timeSlot.id]
                = bookings[bookingId].timeSlot.bookedBy

\* C13: releaseReservation(S, owner) returns true only if the ledger holds a
\* reservation of that owner on S that has not expired; otherwise it returns
\* false and leaves the ledger entry and the calendar's hold on S as they are.
C13_ReleaseOnlyLiveOwnReservation ==
    \A slotId \in Slots, userId \in Owners :
        LET r == releaseReservation(Svc, slotId, userId)
        IN  /\ r.ok => LiveHold(slotId, userId)
            /\ ~LiveHold(slotId, userId) =>
                  /\ ~r.ok
                  /\ r.svc.reservations[slotId] = reservations[slotId]
                  /\ r.svc.cal = Svc.cal

\* C14: a createBooking call that returns a failure leaves the booking table,
\* the reservation ledger and CalendarService's booked and reserved sets as
\* they were before the call.
C14_FailedBookingChangesNothing ==
    \A contactInfo \in Contacts, timeSlot \in Slots, userId \in Owners :
        LET r == createBooking(Svc, contactInfo, timeSlot, userId)
        IN  ~r.success =>
              /\ r.svc.bookings = bookings
              /\ r.svc.reservations = reservations
              /\ r.svc.cal.bookedSlots = bookedSlots
              /\ r.svc.cal.reservedSlots = reservedSlots

\* After an earlier booking: one slot on which a valid request is refused as
\* unavailable, another on which it is refused as reserved by another user,
\* and a request refused for its contact data
C14_Witness ==
    \E s \in Slots, t \in Slots, userId \in Owners, c \in ValidContacts :
        /\ bookings # <<>>
        /\ createBooking(Svc, c, s, userId).error
               = "Selected time slot is no longer available"
        /\ createBooking(Svc, c, t, userId).error
               = "Time slot is reserved by another user"
        /\ createBooking(Svc, BadContact, s, userId).error = "Validation failed"

\* C15: after any number of successful createBooking calls the bookings made
\* have pairwise distinct booking ids and pairwise distinct confirmation ids.
C15_IdsAreDistinct ==
    \A i \in DOMAIN issued, j \in DOMAIN issued :
        i # j => /\ issued[i].id # issued[j].id
                 /\ issued[i].confirmationId # issued[j].confirmationId

\* The in-memory state of the two services
Memory(svc) == <<svc.cal, svc.bookings, svc.reservations>>

\* C16: when the snapshot write fails during createBooking, reserveSlot,
\* releaseReservation or cancelBooking, the call returns the same result and
\* leaves the same in-memory state as when the write succeeds; a failed write
\* is never turned into a failed booking.
C16_StorageFailureIsSwallowed ==
    LET writes == [Svc EXCEPT !.storageFails = FALSE]
        fails == [Svc EXCEPT !.storageFails = TRUE]
    IN  /\ \A contactInfo \in Contacts, timeSlot \in Slots, userId \in Owners :
              LET w == createBooking(writes, contactInfo, timeSlot, userId)
                  f == createBooking(fails, contactInfo, timeSlot, userId)
              IN  /\ f.success = w.success
                  /\ f.error = w.error
                  /\ Memory(f.svc) = Memory(w.svc)
        /\ \A slotId \in Slots, userId \in Owners :
              LET w == reserveSlot(writes, slotId, userId, now)
                  f == reserveSlot(fails, slotId, userId, now)
              IN  f.ok = w.ok /\ Memory(f.svc) = Memory(w.svc)
        /\ \A slotId \in Slots, userId \in Owners :
              LET w == releaseReservation(writes, slotId, userId)
                  f == releaseReservation(fails, slotId, userId)
              IN  f.ok = w.ok /\ Memory(f.svc) = Memory(w.svc)
        /\ \A bookingId \in 1..MaxBookings, userId \in Owners :
              LET w == cancelBooking(writes, bookingId, userId)
                  f == cancelBooking(fails, bookingId, userId)
              IN  f.ok = w.ok /\ Memory(f.svc) = Memory(w.svc)

\* Writes fail and nothing was ever stored, yet a booking was made and
\* cancelled, a reservation is held, and a further booking succeeds
C16_Witness ==
    /\ storageFails /\ storage = NoStorage
    /\ \E bookingId \in DOMAIN bookings :
           bookings[bookingId].status = CANCELLED
    /\ \E slotId \in Slots : reservations[slotId] # NoReservation
    /\ \E timeSlot \in Slots, userId \in Owners, c \in ValidContacts :
           createBooking(Svc, c, timeSlot, userId).success

\* C17: saving the service state and loading it into a fresh BookingService
\* restores exactly the saved booking table (every booking id with the same
\* status, owner and slot) and exactly those saved reservations whose
\* expiresAt is still in the future at load time.
C17_SaveLoadRoundTrip ==
    \A t \in now..(now + RESERVATION_TIMEOUT) :
        LET saved == saveToStorage(Svc).storage
            fresh == newBookingService(saved, t)
        IN  ~storageFails =>
              /\ fresh.bookings = bookings
              /\ \A bookingId \in DOMAIN bookings :
                    /\ getBooking(fresh, bookingId).status
                           = bookings[bookingId].status
                    /\ getBooking(fresh, bookingId).timeSlot
                           = bookings[bookingId].timeSlot
              /\ \A s \in Slots :
                    fresh.reservations[s] =
                        IF reservations[s] # NoReservation
                              /\ t < reservations[s].expiresAt
                        THEN reservations[s]
                        ELSE NoReservation

\* A table with a confirmed and a cancelled booking and a ledger with two
\* reservations, loaded at a time when one of them has expired and the other
\* has not
C17_Witness ==
    \E t \in now..(now + RESERVATION_TIMEOUT), s \in Slots, x \in Slots :
        LET fresh == newBookingService(saveToStorage(Svc).storage, t)
        IN  /\ \E i \in DOMAIN bookings, j \in DOMAIN bookings :
                  /\ fresh.bookings[i].status = CONFIRMED
                  /\ fresh.bookings[j].status = CANCELLED
            /\ reservations[s] # NoReservation
            /\ fresh.reservations[s] = NoReservation
            /\ fresh.reservations[x] # NoReservation

\* C18: createBooking by owner B on a slot held by a live reservation of
\* another owner A fails with 'Time slot is reserved by another user', not
\* with the error given for a slot that is unavailable.
C18_ReservedByAnotherUserError ==
    \A slotId \in Slots, a \in Owners, b \in Owners, c \in ValidContacts :
        (a # b /\ LiveHold(slotId, a)) =>
            createBooking(Svc, c, slotId, b).error
                = "Time slot is reserved by another user"

\* C19: CalendarService.reserveSlot(S, ttl) returns false and changes nothing
\* when S is booked or reserved; otherwise it returns true and
\* isSlotAvailable(S) is false right after it.
C19_CalendarReserve ==
    \A slotId \in Slots, reservationTimeoutMs \in Timeouts :
        LET r == Cal_reserveSlot(Svc.cal, slotId, reservationTimeoutMs, now)
        IN  IF Booked(slotId) \/ slotId \in reservedSlots
            THEN ~r.ok /\ r.cal = Svc.cal
            ELSE r.ok /\ ~isSlotAvailable(r.cal, slotId)

\* One slot booked and the other reserved by an earlier reserveSlot whose
\* timer is pending: reserveSlot is refused on both
C19_Witness ==
    \E s \in Slots, x \in Slots :
        /\ Booked(s) /\ x \in reservedSlots /\ ~Booked(x)
        /\ \E timer \in timers : timer.slotId = x
        /\ ~Cal_reserveSlot(Svc.cal, s, RESERVATION_TIMEOUT, now).ok
        /\ ~Cal_reserveSlot(Svc.cal, x, RESERVATION_TIMEOUT, now).ok

\* What bookSlot(S, u) returns and does: false and no change iff S is booked;
\* otherwise true, S no longer reserved, u recorded as owner, S unavailable
bookSlotContract ==
    \A slotId \in Slots, userId \in Owners :
        LET r == bookSlot(Svc.cal, slotId, userId)
        IN  IF Booked(slotId)
            THEN ~r.ok /\ r.cal = Svc.cal
            ELSE /\ r.ok
                 /\ slotId \notin r.cal.reservedSlots
                 /\ r.cal.bookedSlots[slotId] = userId
                 /\ ~isSlotAvailable(r.cal, slotId)

\* The step is CalendarService.cancelBooking(slotId, owner of slotId)
CancelledByOwner(slotId) ==
    Svc'.cal = Cal_cancelBooking(Svc.cal, slotId, bookedSlots[slotId]).cal

\* C20 as stated: bookSlot(S, u) returns false and changes nothing iff S is
\* booked; otherwise it returns true, removes the reservation on S and records
\* u as owner; and a booked slot stays booked by its owner until that booking
\* is cancelled by the owner.
C20_BookedUntilCancelledByOwner ==
    /\ []bookSlotContract
    /\ [][\A slotId \in Slots :
            Booked(slotId) =>
                \/ bookedSlots'[slotId] = bookedSlots[slotId]
                \/ CancelledByOwner(slotId)]_vars

\* C20, amended: the same, with the slot staying booked by its owner until
\* the booking is cancelled by the owner or clearBookings() empties the
\* calendar.
C20_BookedUntilCancelledOrCleared ==
    /\ []bookSlotContract
    /\ [][\A slotId \in Slots :
            Booked(slotId) =>
                \/ bookedSlots'[slotId] = bookedSlots[slotId]
                \/ CancelledByOwner(slotId)
                \/ Svc'.cal = clearBookings(Svc.cal)]_vars

\* A slot that was reserved and then booked: booked by its owner, no longer
\* reserved, its timer still pending, and a second bookSlot refused
C20_Witness ==
    \E slotId \in Slots, userId \in Owners :
        /\ bookedSlots[slotId] = userId
        /\ slotId \notin reservedSlots
        /\ \E timer \in timers : timer.slotId = slotId
        /\ \A other \in Owners : ~bookSlot(Svc.cal, slotId, other).ok

\* S is available and reserveSlot(S) by an owner other than the one in the
\* ledger succeeds
FreeForOthers(slotId) ==
    /\ Available(slotId)
    /\ \A other \in Owners \ {reservations[slotId].userId} :
           reserveSlot(Svc, slotId, other, now).ok

\* C21: a slot reserved by a successful reserveSlot and not booked becomes
\* available again, timers firing when due: a state follows in which
\* isSlotAvailable(S) is true and another owner's reserveSlot(S) succeeds.
C21_ReservedSlotBecomesFree ==
    \A slotId \in Slots :
        (slotId \in reservedSlots)
            ~> (Booked(slotId) \/ FreeForOthers(slotId))

\* The timer of A's reservation has fired with the ledger entry still
\* there: the slot is available and B's reserveSlot succeeds
C21_Witness ==
    \E slotId \in Slots, b \in Owners :
        /\ reservations[slotId] # NoReservation
        /\ reservations[slotId].userId # b
        /\ now >= reservations[slotId].expiresAt
        /\ slotId \notin reservedSlots
        /\ FreeForOthers(slotId)
        /\ reserveSlot(Svc, slotId, b, now).ok

\* The calendar day date is a Saturday or a Sunday
Weekend(date) == (date + 4) % 7 \in {0, 6}

\* C22: generateTimeSlots(startDate, endDate, ...) returns slots for exactly
\* the days of [startDate, endDate] that are Monday to Friday, whatever the
\* offset of the local time zone: no slot is dated on a Saturday or Sunday
\* and every weekday of the range has its slots.
C22_WeekdaysOnly ==
    (call.fn = "generateTimeSlots" /\ result.done) =>
        LET slots == result.value
        IN  /\ \A i \in DOMAIN slots :
                  /\ ~Weekend(slots[i].date)
                  /\ slots[i].date \in call.startDate..call.endDate
            /\ \A date \in call.startDate..call.endDate :
                  ~Weekend(date) =>
                      SelectSeq(slots, LAMBDA slot : slot.date = date)
                          = generateDailySlots(date, call.startTime,
                                               call.endTime,
                                               call.intervalMinutes)

\* C23: generateDailySlots(date, startTime, endTime, interval), interval > 0,
\* returns slots that partition [startTime, endTime): the first starts at
\* startTime, each is interval minutes long and starts where the one before
\* ends, none ends after endTime, the ids are pairwise distinct, and there
\* is no slot when startTime >= endTime.
C23_DailySlotsPartition ==
    (call.fn = "generateDailySlots" /\ result.done) =>
        LET slots == result.value
            startMinutes == timeToMinutes(call.startTime)
            endMinutes == timeToMinutes(call.endTime)
            from(i) == timeToMinutes(slots[i].startTime)
            to(i) == timeToMinutes(slots[i].endTime)
        IN  /\ startMinutes >= endMinutes => slots = <<>>
            /\ startMinutes < endMinutes =>
                  slots # <<>> /\ slots[1].startTime = call.startTime
            /\ \A i \in DOMAIN slots :
                  /\ to(i) - from(i) = call.intervalMinutes
                  /\ i > 1 => from(i) = to(i - 1)
                  /\ to(i) <= endMinutes
            /\ \A i \in DOMAIN slots, j \in DOMAIN slots :
                  i # j => slots[i].id # slots[j].id

\* The result of validateContactInfo has an error for field
HasError(validationResult, field) ==
    \E i \in DOMAIN validationResult.errors :
        validationResult.errors[i].field = field

\* A contact every field of which BookingService accepts
GoodContact ==
    [name |-> <<"J", "o">>,
     email |-> <<"J", "@", "x", ".", "i", "o">>,
     phone |-> NineDigits \o <<"0">>]

\* The field alone, next to accepted values of the other two, is rejected
\* by validateContactInfo
FieldInvalid(contactInfo, field) ==
    HasError(validateContactInfo(
                 [GoodContact EXCEPT ![field] = contactInfo[field]]), field)

\* C24: contact validation runs all three field validators, none cutting
\* the others short: for every combination of valid and invalid name, email
\* and phone the result has an error for a field iff that field is invalid,
\* and isValid is true iff there is no error.
C24_AllValidatorsRun ==
    /\ (call.fn = "validateContactForm" /\ result.done) =>
          LET r == result.value
          IN  /\ r.errors.name # NoError <=> validateName(call.name) # NoError
              /\ r.errors.email # NoError
                    <=> validateEmail(call.email) # NoError
              /\ r.errors.phone # NoError
                    <=> validatePhone(call.phone) # NoError
              /\ r.isValid <=> /\ r.errors.name = NoError
                               /\ r.errors.email = NoError
                               /\ r.errors.phone = NoError
    /\ (call.fn = "validateContactInfo" /\ result.done) =>
          LET r == result.value
          IN  /\ \A field \in {"name", "email", "phone"} :
                    HasError(r, field)
                        <=> FieldInvalid(call.contactInfo, field)
              /\ r.isValid <=> r.errors = <<>>

\* validateContactForm has returned for a name, an email and a phone that
\* are all invalid, with an error for each
C24_Witness ==
    /\ call.fn = "validateContactForm" /\ result.done
    /\ validateName(call.name) # NoError
    /\ validateEmail(call.email) # NoError
    /\ validatePhone(call.phone) # NoError
    /\ result.value.errors.name.field = "name"
    /\ result.value.errors.email.field = "email"
    /\ result.value.errors.phone.field = "phone"

\* The number of digits in phone
DigitCount(phone) == Len(SelectSeq(phone, LAMBDA c : c \in Digits))

\* C25: createBooking rejects with a validation failure, an invalid-phone
\* error among the errors, every contact whose phone has fewer than 10 or
\* more than 15 digits; the contact {name:'J', email:'bad', phone:'1'} gets
\* exactly three errors.
C25_PhoneLengthEnforced ==
    (call.fn = "createBooking" /\ result.done) =>
        LET validationResult == validateContactInfo(call.contactInfo)
        IN  /\ (\/ DigitCount(call.contactInfo.phone) < 10
                 \/ DigitCount(call.contactInfo.phone) > 15) =>
                  /\ ~result.value.success
                  /\ result.value.error = "Validation failed"
                  /\ HasError(validationResult, "phone")
            /\ call.contactInfo = BadContact =>
                  Len(validationResult.errors) = 3

\* s has no white space at its start or its end
Trimmed(s) == s = <<>> \/ (Head(s) \notin Whitespace /\ s[Len(s)] \notin Whitespace)

\* C26: for every successful createBooking the contact stored in the booking
\* and returned in the confirmation is sanitized: name, email and phone have
\* no leading or trailing white space, the name has none of < > " ' &, and
\* the email is in lower case.
C26_StoredContactIsSanitized ==
    (call.fn = "createBooking" /\ result.done /\ result.value.success) =>
        LET stored == bookings[Len(bookings)].contactInfo
            data == result.value.data
        IN  /\ data.name = stored.name
            /\ data.email = stored.email
            /\ data.phone = stored.phone
            /\ Trimmed(stored.name)
            /\ Trimmed(stored.email)
            /\ Trimmed(stored.phone)
            /\ \A i \in DOMAIN stored.name :
                  stored.name[i] \notin DangerousChars
            /\ stored.email = toLowerCase(stored.email)

\* C27: in every reachable state getBookingStats reports
\* total = confirmed + cancelled + pending over the booking table, and
\* activeReservations is the number of reservations that have not expired.
C27_StatsCountLiveReservations ==
    LET stats == getBookingStats(Svc)
    IN  /\ stats.total = Len(bookings)
        /\ stats.total = stats.confirmed + stats.cancelled + stats.pending
        /\ stats.activeReservations =
              Cardinality({s \in Slots :
                              \E u \in Owners : LiveHold(s, u)})

\* C28: hasBookingConflict(slot, u) is true when the slot is booked or held
\* by a live reservation of a user other than u, and false when the only
\* hold on the slot is u's own live reservation.
C28_OwnReservationIsNoConflict ==
    \A slotId \in Slots, u \in Owners :
        LET conflict == hasBookingConflict(Svc, slotId, u, now)
        IN  /\ (\/ Booked(slotId)
                \/ \E v \in Owners \ {u} : LiveHold(slotId, v)) => conflict
            /\ (~Booked(slotId) /\ LiveHold(slotId, u)) => ~conflict

\* C29: in the BookingContext reducer, RESET_BOOKING and CANCEL_BOOKING leave
\* bookingHistory as it was, and set currentBooking, contactInfo,
\* selectedSlot and reservedSlotId to null and modalState to CLOSED.
C29_CancelAndResetKeepHistory ==
    \A next \in {CANCEL_BOOKING(state)}
                   \cup {RESET_BOOKING(state, generateSessionId(now, random)) :
                            random \in ContextRandoms} :
        /\ next.bookingHistory = state.bookingHistory
        /\ next.currentBooking = Null
        /\ next.contactInfo = Null
        /\ next.selectedSlot = Null
        /\ next.reservedSlotId = None
        /\ next.modalState = CLOSED

\* A booking was completed and then cancelled or reset: the modal is closed
\* with nothing under way, and the history holds the completed booking
C29_Witness ==
    /\ state.bookingHistory # <<>>
    /\ state.modalState = CLOSED
    /\ state.currentBooking = Null
    /\ state.contactInfo = Null
    /\ state.selectedSlot = Null
    /\ state.reservedSlotId = None

\* C30: completeBooking changes the state only when currentBooking,
\* contactInfo and selectedSlot of the state it reads are all set; it then
\* sets modalState to CONFIRMATION and currentBooking.status to CONFIRMED
\* with that contactInfo and slot, and appends exactly one entry, the
\* completed booking, to bookingHistory; so whenever modalState is
\* CONFIRMATION the current booking carries a contact that passes
\* validateContactInfo and a selected slot.
C30_CompleteBookingIsGuarded ==
    /\ \A s \in {state} \cup AfterOneCall(state),
          random \in ConfirmationRandoms :
          LET next == completeBooking(state, s, now, random)
              allSet == /\ state.currentBooking # Null
                        /\ state.contactInfo # Null
                        /\ state.selectedSlot # Null
          IN  /\ next # s => allSet
              /\ allSet =>
                    /\ next.modalState = CONFIRMATION
                    /\ next.currentBooking.status = CONFIRMED
                    /\ next.currentBooking.contactInfo = state.contactInfo
                    /\ next.currentBooking.timeSlot = state.selectedSlot
                    /\ next.bookingHistory =
                          Append(s.bookingHistory, next.currentBooking)
    /\ state.modalState = CONFIRMATION =>
          /\ state.currentBooking # Null
          /\ state.currentBooking.status = CONFIRMED
          /\ Ctx_validateContactInfo(state.currentBooking.contactInfo).isValid
          /\ state.currentBooking.timeSlot \in TimeSlots

\* A second booking has been completed: the modal shows the confirmation and
\* the history holds two bookings, the last one the current booking
C30_Witness ==
    /\ state.modalState = CONFIRMATION
    /\ Len(state.bookingHistory) = 2
    /\ state.bookingHistory[2] = state.currentBooking
    /\ state.currentBooking.contactInfo = state.contactInfo
    /\ state.currentBooking.timeSlot = state.selectedSlot

\* C32: in every state reachable through reserveSlot, releaseReservation,
\* createBooking and cancelBooking by any owners, timer expiry and cleanup,
\* each slot has at most one booking with status Confirmed.
C32_OneConfirmedBookingPerSlot ==
    \A i, j \in DOMAIN bookings :
        (/\ bookings[i].status = CONFIRMED
         /\ bookings[j].status = CONFIRMED
         /\ bookings[i].timeSlot.id = bookings[j].timeSlot.id) => i = j

\* C33: a successful CalendarService.reserveSlot(S, ttl) keeps S unavailable
\* until ttl has elapsed, unless S is booked or reservations are cleared in
\* the meantime: once the call has returned true, no setTimeout callback
\* that releases S is due before the new reservation's own time is up (the
\* timer of an earlier reservation that was ended by booking, cancellation
\* or clearing does not cut the later one short).
C33_ReservationLastsItsTimeout ==
    \A slotId \in Slots, reservationTimeoutMs \in Timeouts :
        LET r == Cal_reserveSlot(Svc.cal, slotId, reservationTimeoutMs, now)
        IN  r.ok =>
                \A timer \in r.cal.timers :
                    timer.slotId = slotId =>
                        timer.at >= now + reservationTimeoutMs

\* C34: the reservation ledger of BookingService and the reserved set of
\* CalendarService agree in every reachable state: a slot has an entry in
\* reservations iff it is in reservedSlots.
C34_LedgerMatchesCalendar ==
    \A slotId \in Slots :
        reservations[slotId] # NoReservation <=> slotId \in reservedSlots

\* C35: after a restart from the last saved snapshot (a new BookingService
\* with a new CalendarService running loadFromStorage), every slot that has
\* a Confirmed booking is reported unavailable, and createBooking on it
\* fails for every owner.
C35_RestartKeepsSlotsBooked ==
    LET restarted == newBookingService(storage, now)
    IN  \A bookingId \in DOMAIN restarted.bookings :
            LET booking == restarted.bookings[bookingId]
            IN  booking.status = CONFIRMED =>
                    /\ ~isSlotAvailable(restarted.cal, booking.timeSlot.id)
                    /\ \A userId \in Owners, contactInfo \in ValidContacts :
                          ~createBooking(restarted, contactInfo,
                                         booking.timeSlot.id, userId).success

\* C36: with the real CalendarService the conflict outcome of createBooking
\* ('Failed to book time slot - conflict detected') is unreachable: in no
\* reachable state does any createBooking call return it, the availability
\* check and bookSlot being part of one step.
C36_ConflictIsUnreachable ==
    \A contactInfo \in Contacts, timeSlot \in Slots, userId \in Owners :
        createBooking(Svc, contactInfo, timeSlot, userId).error
            # "Failed to book time slot - conflict detected"

\* One slot is booked and createBooking on it is refused by the availability
\* check, while the other slot is free and createBooking on it succeeds
C36_Witness ==
    \E booked \in Slots, free \in Slots, userId \in Owners,
       contactInfo \in ValidContacts :
        /\ Booked(booked)
        /\ createBooking(Svc, contactInfo, booked, userId).error
              = "Selected time slot is no longer available"
        /\ Available(free)
        /\ createBooking(Svc, contactInfo, free, userId).success

\* C38: the periodic cleanup removes exactly the reservations whose
\* expiresAt is at or before the current time and changes nothing else:
\* reservations that have not expired, all bookings and the booked set of
\* CalendarService are as before, whatever reserveSlot, createBooking and
\* cancelBooking calls came before it.
C38_CleanupRemovesExpiredOnly ==
    LET cleaned == reservationCleanup(Svc, now)
    IN  /\ \A slotId \in Slots :
              cleaned.reservations[slotId] =
                  IF /\ reservations[slotId] # NoReservation
                     /\ reservations[slotId].expiresAt <= now
                  THEN NoReservation
                  ELSE reservations[slotId]
        /\ cleaned.bookings = bookings
        /\ cleaned.cal.bookedSlots = bookedSlots

\* The ledger holds an expired and a live reservation and the table a
\* booking: the cleanup removes the first and keeps the rest
C38_Witness ==
    \E expired \in Slots, live \in Slots :
        /\ reservations[expired] # NoReservation
        /\ reservations[expired].expiresAt <= now
        /\ reservations[live] # NoReservation
        /\ reservations[live].expiresAt > now
        /\ bookings # <<>>
        /\ reservationCleanup(Svc, now).reservations[expired] = NoReservation
        /\ reservationCleanup(Svc, now).reservations[live] = reservations[live]

\* C37: generateDailySlots terminates for every integer intervalMinutes, 0
\* and negative values included, whenever startTime < endTime: the loop is
\* left only when minutes >= endMinutes, so each iteration that has run has
\* taken minutes at least one minute closer to endMinutes.
C37_DailySlotsLoopAdvances ==
    (/\ ~result.done
     /\ timeToMinutes(call.startTime) < timeToMinutes(call.endTime)) =>
        result.minutes >= timeToMinutes(call.startTime) + Len(result.slots)

\* C39: after any sequence of startBooking, setContactInfo, setSelectedSlot,
\* completeBooking, cancelBooking and resetBooking no two entries of
\* bookingHistory have the same booking id: each started booking is in the
\* history at most once.
C39_HistoryIdsAreDistinct ==
    \A i, j \in DOMAIN state.bookingHistory :
        state.bookingHistory[i].id = state.bookingHistory[j].id => i = j

\* C31: in AppointmentBookingModal, when the modal is on the
\* CALENDAR_SELECTION step and the reservation of the selected slot fails
\* (CalendarService.reserveSlot does not reserve it), handleSlotSelect leaves
\* the modal on CALENDAR_SELECTION and records no confirmation, so that the
\* Confirmation step, the only place from which onComplete is invoked, is not
\* shown: CONFIRMATION is reached only after a successful reservation.
C31_FailedReservationStaysOnCalendar ==
    \A click \in state.clicks, random \in ConfirmationRandoms :
        LET reserved == Cal_reserveSlot(Svc.cal, click.slot.id,
                                        RESERVATION_TIMEOUT, now)
            after == handleSlotSelect(state, Svc.cal, click.contactInfo,
                                      click.slot, now, random).modal
        IN  (state.currentStep = CALENDAR_SELECTION /\ ~reserved.ok) =>
                /\ after.currentStep = CALENDAR_SELECTION
                /\ after.bookingState.confirmation = Null
                /\ ~confirmationShown(after)

====
